---- MODULE Spec2Model ----
(***************************************************************************)
(* Chat pipeline of the GenAI Stack front end: ChatInterface.handleSend,   *)
(* StackProvider.sendPrompt / delayMessage and the Gemini call run().      *)
(* Strings are sequences of one-character strings.  Every accepted prompt  *)
(* is a "run"; the sequence runs is a history of the runs (what each       *)
(* was asked, what the provider answered, which chunks were applied), kept *)
(* beside the program state so that properties can speak about them.       *)
(***************************************************************************)
EXTENDS Integers, Sequences, FiniteSets, TLC

VARIABLES
    inputMessage,   \* ChatInterface: useState("") text of the input box
    input,          \* StackProvider: useState("")
    messages,       \* StackProvider: useState([]) the chat messages
    isLoading,      \* StackProvider: useState(false)
    stackData,      \* StackProvider: useState({}) the stack (graph) data
    timers,         \* pending setTimeout callbacks, in registration order,
                    \* each with the milliseconds left until it is due
    signal,         \* the caller's cancellation signal
    runs,           \* history: one record per accepted prompt
    lastSend        \* history: the last handleSend invocation

vars == <<inputMessage, input, messages, isLoading, stackData, timers,
          signal, runs, lastSend>>

----------------------------------------------------------------------------
(* Bounds *)

MaxRuns == 2

(* Program constants *)

TimerStep == 40

----------------------------------------------------------------------------
(* Strings *)

WS == {" ", "\n"}

STAR == "*"

BOLD_OPEN == <<"<", "b", ">">>

BOLD_CLOSE == <<"<", "/", "b", ">">>

BR == <<"<", "b", "r", "/", ">">>

\* the failure notice is one indivisible token of the text
Notice == <<"Gemini failed to respond.">>

RECURSIVE TrimLeft(_)
TrimLeft(s) ==
    IF s # <<>> /\ Head(s) \in WS THEN TrimLeft(Tail(s)) ELSE s

RECURSIVE TrimRight(_)
TrimRight(s) ==
    IF s # <<>> /\ s[Len(s)] \in WS
    THEN TrimRight(SubSeq(s, 1, Len(s) - 1))
    ELSE s

\* String.prototype.trim
Trim(s) == TrimRight(TrimLeft(s))

\* faulty variant: the text is not trimmed before the test
BlankNoTrim(s) == s = <<>>

\* !s.trim()
Blank(s) == Trim(s) = <<>>

RECURSIVE Flatten(_)
Flatten(ss) == IF ss = <<>> THEN <<>> ELSE Head(ss) \o Flatten(Tail(ss))

IsPrefix(a, b) == Len(a) <= Len(b) /\ SubSeq(b, 1, Len(a)) = a

Drop(s, n) == SubSeq(s, n + 1, Len(s))

StartsWith(s, p) == IsPrefix(p, s)

----------------------------------------------------------------------------
(* Formatting of the response: sendPrompt lines 79-81 *)

\* the least j >= 3 with s[j] = s[j+1] = "*" and no line terminator in
\* s[3..j-1], or 0: where the lazy group (.*?) followed by \*\* ends
FindClose(s) ==
    LET C == {j \in 3..(Len(s) - 1) :
                 /\ s[j] = STAR /\ s[j + 1] = STAR
                 /\ \A k \in 3..(j - 1) : s[k] # "\n"}
    IN IF C = {} THEN 0 ELSE CHOOSE j \in C : \A k \in C : j <= k

RECURSIVE ReplaceBold(_)
\* rawResponse.replace(/\*\*(.*?)\*\*/g, "<b>$1</b>")
ReplaceBold(s) ==
    IF s = <<>> THEN <<>>
    ELSE IF Len(s) >= 4 /\ s[1] = STAR /\ s[2] = STAR /\ FindClose(s) # 0
    THEN LET j == FindClose(s)
         IN BOLD_OPEN \o SubSeq(s, 3, j - 1) \o BOLD_CLOSE
                \o ReplaceBold(Drop(s, j + 1))
    ELSE <<Head(s)>> \o ReplaceBold(Tail(s))

RECURSIVE ReplaceStar(_)
\* withBold.replace(/\*/g, "<br/>")
ReplaceStar(s) ==
    IF s = <<>> THEN <<>>
    ELSE (IF Head(s) = STAR THEN BR ELSE <<Head(s)>>) \o ReplaceStar(Tail(s))

Format(raw) == ReplaceStar(ReplaceBold(raw))

----------------------------------------------------------------------------
(* formatted.split(/(\s+|<br\/>)/g): the separators are captured, so they   *)
(* are elements of the result                                               *)

RECURSIVE WsRun(_)
WsRun(s) == IF s # <<>> /\ Head(s) \in WS THEN 1 + WsRun(Tail(s)) ELSE 0

RECURSIVE SplitRec(_, _)
SplitRec(rest, cur) ==
    IF rest = <<>> THEN <<cur>>
    ELSE IF Head(rest) \in WS
    THEN LET n == WsRun(rest)
         IN <<cur, SubSeq(rest, 1, n)>> \o SplitRec(Drop(rest, n), <<>>)
    ELSE IF StartsWith(rest, BR)
    THEN <<cur, BR>> \o SplitRec(Drop(rest, Len(BR)), <<>>)
    ELSE SplitRec(Tail(rest), Append(cur, Head(rest)))

Split(s) == SplitRec(s, <<>>)

----------------------------------------------------------------------------
(* Inputs *)

\* what the provider may answer: plain words, and bold text followed by a
\* line break
Responses ==
    { <<"a", " ", "a">>,
      <<"*", "*", "a", "*", "*", "*">> }

\* what the user may type
Prompts == { <<" ">>, <<"a">> }

----------------------------------------------------------------------------
(* The stack data and the validity of the graph it holds *)

EmptyObject == [k \in {} |-> 0]

\* { ...prev, ...newData }
Merge(prev, newData) ==
    [k \in (DOMAIN prev) \cup (DOMAIN newData) |->
        IF k \in DOMAIN newData THEN newData[k] ELSE prev[k]]

ChainNodes == <<"UserQuery", "LLMEngine", "Output">>

\* what updateStack may be given
NewDatas ==
    { [nodes |-> ChainNodes, edges |-> {<<1, 2>>, <<2, 3>>}],
      [nodes |-> ChainNodes, edges |-> {<<1, 2>>, <<1, 3>>}] }

InDegree(g, n) == Cardinality({e \in g.edges : e[2] = n})

OutDegree(g, n) == Cardinality({e \in g.edges : e[1] = n})

RECURSIVE Walk(_, _, _)
\* the nodes met on the walk from n along single outgoing edges
Walk(g, n, visited) ==
    IF n \in visited THEN visited
    ELSE LET out == {e \in g.edges : e[1] = n}
         IN IF out = {} THEN visited \cup {n}
            ELSE Walk(g, (CHOOSE e \in out : TRUE)[2], visited \cup {n})

\* a single chain from the one UserQuery node to the one Output node
ValidGraph(g) ==
    /\ "nodes" \in DOMAIN g /\ "edges" \in DOMAIN g
    /\ LET N == 1..Len(g.nodes)
           entries == {n \in N : InDegree(g, n) = 0}
           exits == {n \in N : OutDegree(g, n) = 0}
       IN /\ \A e \in g.edges : e[1] \in N /\ e[2] \in N
          /\ Cardinality(entries) = 1
          /\ Cardinality(exits) = 1
          /\ \A n \in N : InDegree(g, n) <= 1 /\ OutDegree(g, n) <= 1
          /\ Walk(g, CHOOSE n \in entries : TRUE, {}) = N
          /\ g.nodes[CHOOSE n \in entries : TRUE] = "UserQuery"
          /\ g.nodes[CHOOSE n \in exits : TRUE] = "Output"

----------------------------------------------------------------------------
(* State *)

NoSend == [called |-> FALSE, input |-> <<>>, run |-> 0]

Init ==
    /\ inputMessage = <<>>
    /\ input = <<>>
    /\ messages = <<>>
    /\ isLoading = FALSE
    /\ stackData = EmptyObject
    /\ timers = <<>>
    /\ signal = "live"
    /\ runs = <<>>
    /\ lastSend = NoSend

RunIds == 1..Len(runs)

Running(r) == runs[r].status = "running"

InFlight == {r \in RunIds : Running(r)}

\* the messages of run r with the given type, as indices into messages
MsgsOf(r, type) ==
    {i \in 1..Len(messages) : messages[i].run = r /\ messages[i].type = type}

\* the position in timers of the callback the event loop runs next:
\* the earliest due time, and among equals the first registered
NextTimer ==
    CHOOSE k \in 1..Len(timers) :
        \A j \in 1..Len(timers) :
            \/ timers[k].delay < timers[j].delay
            \/ timers[k].delay = timers[j].delay /\ k <= j

RemoveAt(s, k) == SubSeq(s, 1, k - 1) \o SubSeq(s, k + 1, Len(s))

----------------------------------------------------------------------------
(* ChatInterface *)

\* faulty variant: the input box stays enabled while loading
InputDisabledNever == FALSE

\* <input disabled={isLoading}>
InputDisabled == isLoading

\* <button disabled={!inputMessage.trim() || isLoading}>
SendDisabled == Blank(inputMessage) \/ isLoading

\* onChange={(e) => setInputMessage(e.target.value)}
TypeInput(s) ==
    /\ ~InputDisabled
    /\ inputMessage' = s
    /\ UNCHANGED <<input, messages, isLoading, stackData, timers, signal,
                   runs, lastSend>>

----------------------------------------------------------------------------
(* StackProvider *)

NewRun(userInput) ==
    [prompt |-> userInput, status |-> "running", calls |-> 1,
     raw |-> <<>>, applied |-> <<>>]

\* sendPrompt up to its await: the user message, the flags and the one
\* call of run(userInput), which starts chatSession.sendMessage
SendPrompt(userInput) ==
    IF Blank(userInput)
    THEN UNCHANGED <<input, messages, isLoading, runs>>
    ELSE /\ messages' = Append(messages,
                [type |-> "user", content |-> userInput,
                 run |-> Len(runs) + 1])
         /\ isLoading' = TRUE
         /\ input' = <<>>
         /\ runs' = Append(runs, NewRun(userInput))

\* handleSend, from the send button or from Enter in the input box
HandleSend(trigger) ==
    /\ trigger = "click" => ~SendDisabled
    /\ trigger = "enter" => ~InputDisabled
    /\ Len(runs) < MaxRuns
    /\ IF Blank(inputMessage)
       THEN /\ lastSend' = [called |-> TRUE, input |-> inputMessage, run |-> 0]
            /\ UNCHANGED <<inputMessage, input, messages, isLoading, runs>>
       ELSE /\ SendPrompt(inputMessage)
            /\ lastSend' = [called |-> TRUE, input |-> inputMessage,
                            run |-> Len(runs')]
            /\ inputMessage' = <<>>
    /\ UNCHANGED <<stackData, timers, signal>>

\* delayMessage for every word: setTimeout(..., 40 * index)
Schedule(r, words) ==
    [i \in 1..Len(words) |->
        [run |-> r, index |-> i - 1, word |-> words[i],
         delay |-> TimerStep * (i - 1)]]

\* faulty variant: the response arrives but no AI message is appended
SettleSuccessNoMessage(r, raw) ==
    /\ Running(r)
    /\ isLoading' = FALSE
    /\ runs' = [runs EXCEPT ![r].status = "completed", ![r].raw = raw]
    /\ UNCHANGED <<inputMessage, input, messages, stackData, timers,
                   signal, lastSend>>

\* run() resolves with the text: try block and finally of sendPrompt
SettleSuccess(r, raw) ==
    /\ Running(r)
    /\ LET formatted == Format(raw)
           words == Split(formatted)
       IN /\ messages' = Append(messages,
                 [type |-> "ai", content |-> <<>>, run |-> r])
          /\ timers' = timers \o Schedule(r, words)
          /\ runs' = [runs EXCEPT ![r].status = "completed", ![r].raw = raw]
    /\ isLoading' = FALSE
    /\ UNCHANGED <<inputMessage, input, stackData, signal, lastSend>>

\* faulty variant: the catch branch falls through into the typing animation
SettleFailureFallThrough(r) ==
    /\ Running(r)
    /\ LET words == Split(Format(Notice))
       IN /\ messages' = Append(messages,
                 [type |-> "ai", content |-> Notice, run |-> r])
          /\ timers' = timers \o Schedule(r, words)
          /\ runs' = [runs EXCEPT ![r].status = "failed"]
    /\ isLoading' = FALSE
    /\ UNCHANGED <<inputMessage, input, stackData, signal, lastSend>>

\* faulty variant: the catch branch calls the provider a second time
SettleFailureRetry(r) ==
    /\ Running(r)
    /\ runs[r].calls < 2
    /\ runs' = [runs EXCEPT ![r].calls = @ + 1]
    /\ UNCHANGED <<inputMessage, input, messages, isLoading, stackData,
                   timers, signal, lastSend>>

\* run() rejects: catch block and finally of sendPrompt
SettleFailure(r) ==
    /\ Running(r)
    /\ messages' = Append(messages,
           [type |-> "ai", content |-> Notice, run |-> r])
    /\ runs' = [runs EXCEPT ![r].status = "failed"]
    /\ isLoading' = FALSE
    /\ UNCHANGED <<inputMessage, input, stackData, timers, signal,
                   lastSend>>

\* the callback of delayMessage: the word goes to the LAST message
FireTimer ==
    /\ timers # <<>>
    /\ LET k == NextTimer
           t == timers[k]
           n == Len(messages)
       IN /\ t.delay <= 0
          /\ messages' = [messages EXCEPT ![n].content = @ \o t.word]
          /\ timers' = RemoveAt(timers, k)
          /\ runs' = [runs EXCEPT ![t.run].applied = Append(@, t.index)]
    /\ UNCHANGED <<inputMessage, input, isLoading, stackData, signal,
                   lastSend>>

\* time passes while a timer is still ahead
Tick ==
    /\ \E k \in 1..Len(timers) : timers[k].delay > 0
    /\ timers' = [k \in 1..Len(timers) |->
                     [timers[k] EXCEPT !.delay = @ - TimerStep]]
    /\ UNCHANGED <<inputMessage, input, messages, isLoading, stackData,
                   signal, runs, lastSend>>

\* updateStack(newData)
UpdateStack(newData) ==
    /\ stackData' = Merge(stackData, newData)
    /\ UNCHANGED <<inputMessage, input, messages, isLoading, timers,
                   signal, runs, lastSend>>

\* the caller withdraws its request; sendPrompt and run take no signal, so
\* nothing of the program reads it
Cancel ==
    /\ signal = "live"
    /\ signal' = "cancelled"
    /\ UNCHANGED <<inputMessage, input, messages, isLoading, stackData,
                   timers, runs, lastSend>>

Next ==
    \/ \E s \in Prompts : TypeInput(s)
    \/ \E trigger \in {"click", "enter"} : HandleSend(trigger)
    \/ \E r \in RunIds, raw \in Responses : SettleSuccess(r, raw)
    \/ \E r \in RunIds : SettleFailure(r)
    \/ FireTimer
    \/ Tick
    \/ \E newData \in NewDatas : UpdateStack(newData)
    \/ Cancel

Spec == Init /\ [][Next]_vars

----------------------------------------------------------------------------
(* Vocabulary of the properties *)

\* empty or whitespace-only
IsBlankText(s) == \A i \in 1..Len(s) : s[i] \in WS

Settled(r) == runs[r].status \in {"completed", "failed"}

Formatted(r) == Format(runs[r].raw)

Words(r) == Split(Formatted(r))

AiMsgs(r) == MsgsOf(r, "ai")

TimersOf(r) == {k \in 1..Len(timers) : timers[k].run = r}

\* run r scheduled no typing chunk: none is pending and none was applied
NoChunks(r) == TimersOf(r) = {} /\ runs[r].applied = <<>>

\* the text of the chunks of run r applied so far, in the order applied
AppliedText(r) ==
    Flatten([i \in 1..Len(runs[r].applied) |-> Words(r)[runs[r].applied[i] + 1]])

\* no prompt was accepted after the one of run r
Latest(r) == r = Len(runs)

----------------------------------------------------------------------------
\* C1: a run whose provider call failed has status failed, exactly one AI
\* message, which begins with the failure notice, no formatted response and
\* no typing chunk, pending or applied.
C1_FailureAborts ==
    \A r \in RunIds :
        runs[r].status = "failed" =>
            /\ runs[r].raw = <<>>
            /\ NoChunks(r)
            /\ Cardinality(AiMsgs(r)) = 1
            /\ \A i \in AiMsgs(r) : StartsWith(messages[i].content, Notice)

C1_Witness ==
    \E r \in RunIds :
        /\ runs[r].status = "failed"
        /\ \E i \in AiMsgs(r) : messages[i].content = Notice

----------------------------------------------------------------------------
\* C4: while the provider call of a run is pending the run has no AI message;
\* in every state after it settled the run is completed or failed and has
\* exactly one AI message, the failure notice if and only if it failed.  (A
\* run that went on to another outcome would show a second AI message or a
\* message of the other kind.)
C4_ExactlyOneOutcome ==
    \A r \in RunIds :
        /\ runs[r].status \in {"running", "completed", "failed"}
        /\ Running(r) => AiMsgs(r) = {}
        /\ Settled(r) => Cardinality(AiMsgs(r)) = 1
        /\ \A i \in AiMsgs(r) :
               (runs[r].status = "failed")
                   <=> StartsWith(messages[i].content, Notice)

C4_Witness ==
    \E r1, r2 \in RunIds :
        /\ runs[r1].status = "completed" /\ runs[r2].status = "failed"
        /\ timers = <<>>

----------------------------------------------------------------------------
\* C5: the provider is invoked exactly once for every accepted prompt, also
\* after it failed, and the failure of a failed run is shown to the caller as
\* the failure notice.
C5_NoRetry ==
    \A r \in RunIds :
        /\ runs[r].calls = 1
        /\ runs[r].status = "failed" =>
               \E i \in AiMsgs(r) : StartsWith(messages[i].content, Notice)

C5_Witness ==
    \E r \in RunIds :
        /\ runs[r].status = "failed" /\ runs[r].calls = 1
        /\ Len(runs) > r

----------------------------------------------------------------------------
\* C10: at most one provider call is in flight, and isLoading is true exactly
\* when one is.
C10_LoadingIffInFlight ==
    /\ Cardinality(InFlight) <= 1
    /\ isLoading <=> InFlight # {}

C10_Witness ==
    /\ isLoading
    /\ \E r \in RunIds : Settled(r)

----------------------------------------------------------------------------
\* C2: the output of a run is written only into that run's own AI message:
\* every user message still holds its prompt, every failure notice is
\* untouched, and the AI message of a completed run holds exactly the chunks
\* of that run applied so far.
C2_NoSharedState ==
    \A i \in 1..Len(messages) :
        LET m == messages[i]
        IN /\ m.type = "user" => m.content = runs[m.run].prompt
           /\ (m.type = "ai" /\ runs[m.run].status = "failed")
                  => m.content = Notice
           /\ (m.type = "ai" /\ runs[m.run].status = "completed")
                  => m.content = AppliedText(m.run)

----------------------------------------------------------------------------
\* C3: a step that starts a run, and with it the provider call, is taken
\* only while the graph held by the stack data is valid.
C3_StartsOnlyIfValid == Len(runs') > Len(runs) => ValidGraph(stackData)

\* C3: every step of every behaviour starts a run only under a valid graph.
C3_ValidatedBeforeRun == [][C3_StartsOnlyIfValid]_vars

----------------------------------------------------------------------------
\* C6 (as stated): a handleSend with a blank text ends as a failed run whose
\* error is reported, with no provider call.
C6_BlankFailsWithEmptyQuery ==
    (lastSend.called /\ IsBlankText(lastSend.input)) =>
        /\ lastSend.run \in RunIds
        /\ runs[lastSend.run].status = "failed"
        /\ runs[lastSend.run].calls = 0

\* C6 (amended): a blank text is ignored: handleSend starts no run for it,
\* so no run has a blank prompt, no provider call is made for one, and every
\* message belongs to an accepted, non-blank prompt: nothing is appended and
\* nothing is reported for a blank text.
C6_BlankIgnored ==
    /\ (lastSend.called /\ IsBlankText(lastSend.input)) => lastSend.run = 0
    /\ \A r \in RunIds : ~IsBlankText(runs[r].prompt)
    /\ \A i \in 1..Len(messages) :
           /\ messages[i].run \in RunIds
           /\ messages[i].type = "user" => ~IsBlankText(messages[i].content)
    /\ Cardinality({i \in 1..Len(messages) : messages[i].type = "user"})
           = Len(runs)
    /\ Len(messages) = Len(runs) + Cardinality({r \in RunIds : Settled(r)})

C6_Witness ==
    /\ lastSend.called /\ lastSend.input = <<" ">> /\ lastSend.run = 0
    /\ Len(runs) = 1 /\ ~isLoading

----------------------------------------------------------------------------
\* C7: with the signal already cancelled no run is started and no provider
\* call made; a run whose call is in flight when the signal is cancelled can
\* only end failed, with no response recorded and no typing chunk scheduled.
C7_CancelledStep ==
    signal = "cancelled" =>
        /\ Len(runs') = Len(runs)
        /\ \A r \in RunIds :
               (Running(r) /\ runs'[r].status # "running") =>
                   /\ runs'[r].status = "failed"
                   /\ runs'[r].raw = <<>>
                   /\ timers' = timers

\* C7: every step taken under a cancelled signal is such a step.
C7_CancellationAborts == [][C7_CancelledStep]_vars

----------------------------------------------------------------------------
\* C8: for a completed run after which no prompt was sent, whose response
\* has no "*" and whose chunks have all been applied, the content of the
\* run's AI message is the response, character for character.
C8_PlainTextPassThrough ==
    \A r \in RunIds :
        (/\ Latest(r)
         /\ runs[r].status = "completed"
         /\ TimersOf(r) = {}
         /\ \A k \in 1..Len(runs[r].raw) : runs[r].raw[k] # STAR)
        => \A i \in AiMsgs(r) : messages[i].content = runs[r].raw

----------------------------------------------------------------------------
\* C9: for a completed run after which no prompt was sent, the chunks are
\* applied in increasing index order, the content of the run's AI message is
\* always a prefix of the formatted response, and it is the whole formatted
\* response once every timer has fired.
C9_TypingInOrderAndComplete ==
    \A r \in RunIds :
        (Latest(r) /\ runs[r].status = "completed") =>
            /\ runs[r].applied = [k \in 1..Len(runs[r].applied) |-> k - 1]
            /\ \A i \in AiMsgs(r) :
                   /\ IsPrefix(messages[i].content, Formatted(r))
                   /\ timers = <<>> => messages[i].content = Formatted(r)

====
